---- MODULE Spec2Model ----
(***************************************************************************)
(* Speed-Limit-Golfball: a GPS speed-limit display (MicroPython, ESP32).   *)
(*                                                                         *)
(* Three cooperative uasyncio tasks share the state below:                 *)
(*   GPS.update                    (src/gps.py)         reads NMEA lines   *)
(*   UnitToggle.monitor_touch_async (src/unit_toggle.py) polls the touch   *)
(*   main_loop                     (src/main.py)        decides and draws  *)
(* A task runs from one await to the next without interleaving, so one     *)
(* loop iteration of a task is one action.                                 *)
(*                                                                         *)
(* Numbers.  A text field is a sequence of one-character strings.  float() *)
(* values are kept exactly as integers in thousandths; a coordinate in     *)
(* decimal degrees is kept in units of 1/60000 degree (one thousandth of   *)
(* an arc minute), so dd + mm/60 is exact: 48.1173 deg = 2887038 units.    *)
(* Floating-point rounding is not modelled.  None is the empty set and a   *)
(* present value x is {x}.                                                 *)
(***************************************************************************)
EXTENDS Integers, Sequences, FiniteSets, TLC

VARIABLES
    \* ---- GPS (src/gps.py) ----
    line,                 \* what the last uart.readline() of GPS.update gave
    has_fix,              \* GPS.has_fix
    latitude,             \* GPS.latitude   (None or {units})
    longitude,            \* GPS.longitude  (None or {units})
    \* ---- UnitToggle (src/unit_toggle.py) ----
    toggle_status,        \* UnitToggle._toggle_status ("pending")
    last_touch_time,      \* UnitToggle.last_touch_time, ms
    is_pressed,           \* xpt.is_pressed: the touch panel, environment
    now,                  \* utime.ticks_ms(): the clock, environment
    \* ---- main (src/main.py) ----
    main_pc,              \* where main_loop is
    speed_limits_data,    \* global speed_limits_data: the parsed document, None before loading
    current_unit_is_mph,  \* global current_unit_is_mph
    toggled,              \* main_loop: what get_toggle_status() returned in the last cycle
    lat,                  \* main_loop local lat of the last cycle
    lon,                  \* main_loop local lon of the last cycle
    closest_speed_limit,  \* main_loop local of the last cycle
    min_distance,         \* main_loop local of the last cycle (mm), None for inf
    lcd,                  \* what the display shows: the last render command
    \* ---- observers ----
    step,                 \* the step that led to this state: its task, and for
                          \* a GPS step the coordinates before it and whether
                          \* _parse_nmea raised, for a cycle the touches it consumed
    accepted,             \* touches accepted since the last decision cycle
    press_accepts,        \* touches accepted since the panel was last pressed
                          \* or released: during the press that lasts, if any
    flips                 \* toggles the decision loop has consumed since boot

gps_vars   == <<line, has_fix, latitude, longitude>>
touch_vars == <<toggle_status, last_touch_time>>
env_vars   == <<is_pressed, now>>
main_vars  == <<main_pc, speed_limits_data, current_unit_is_mph, toggled,
                lat, lon, closest_speed_limit, min_distance, lcd>>
hist == <<press_accepts, flips>>
vars == <<gps_vars, touch_vars, env_vars, main_vars, step, accepted, hist>>

None == {}
Some(x) == {x}
TheVal(o) == CHOOSE x \in o : TRUE

(***************************************************************************)
(* Text and number conversions                                             *)
(***************************************************************************)
Digits == {"0", "1", "2", "3", "4", "5", "6", "7", "8", "9"}

DigitVal(c) ==
    CASE c = "0" -> 0 [] c = "1" -> 1 [] c = "2" -> 2 [] c = "3" -> 3
      [] c = "4" -> 4 [] c = "5" -> 5 [] c = "6" -> 6 [] c = "7" -> 7
      [] c = "8" -> 8 [] c = "9" -> 9

IsDigits(s) == \A i \in 1..Len(s) : s[i] \in Digits

RECURSIVE DigitsValue(_)
\* the number a string of digits denotes ("" -> 0)
DigitsValue(s) ==
    IF Len(s) = 0 THEN 0
    ELSE 10 * DigitsValue(SubSeq(s, 1, Len(s) - 1)) + DigitVal(s[Len(s)])

\* Python slices s[a:b] and s[a:] with 0-based a, b (clamped like Python's)
Slice(s, a, b) ==
    IF a >= Len(s) \/ b <= a THEN <<>>
    ELSE SubSeq(s, a + 1, IF b > Len(s) THEN Len(s) ELSE b)
SliceFrom(s, a) == Slice(s, a, Len(s))

\* the outcome of a conversion that may raise ValueError
ValueError == [raised |-> TRUE]
Returns(x) == [raised |-> FALSE, val |-> x]

HasSign(s) == Len(s) > 0 /\ s[1] \in {"-", "+"}
Unsigned(s) == IF HasSign(s) THEN SliceFrom(s, 1) ELSE s
SignOf(s) == IF Len(s) > 0 /\ s[1] = "-" THEN -1 ELSE 1

\* int(s): an optional sign and at least one digit, anything else raises.
PyInt(s) ==
    LET b == Unsigned(s) IN
    IF Len(b) > 0 /\ IsDigits(b) THEN Returns(SignOf(s) * DigitsValue(b))
    ELSE ValueError

\* the first three fraction digits as thousandths ("5" -> 500, "038" -> 38)
Thousandths(f) ==
    LET d(i) == IF i <= Len(f) THEN DigitVal(f[i]) ELSE 0
    IN 100 * d(1) + 10 * d(2) + d(3)

\* float(s), in thousandths: an optional sign, digits with at most one ".",
\* at least one digit; anything else raises.  (The model's texts hold only
\* digits, ".", "-" and the letter "X", and at most three fraction digits.)
PyFloat(s) ==
    LET b    == Unsigned(s)
        dots == {i \in 1..Len(b) : b[i] = "."}
    IN  IF dots = {}
        THEN IF Len(b) > 0 /\ IsDigits(b)
             THEN Returns(SignOf(s) * 1000 * DigitsValue(b))
             ELSE ValueError
        ELSE IF Cardinality(dots) > 1 THEN ValueError
        ELSE LET p  == CHOOSE i \in dots : TRUE
                 ip == Slice(b, 0, p - 1)
                 fp == SliceFrom(b, p)
             IN  IF IsDigits(ip) /\ IsDigits(fp) /\ Len(ip) + Len(fp) > 0
                 THEN Returns(SignOf(s) * (1000 * DigitsValue(ip) + Thousandths(fp)))
                 ELSE ValueError

(***************************************************************************)
(* gps.py: coordinate conversion.  Both catch the ValueError of float()    *)
(* and return None; the result is given as an outcome so that a raise      *)
(* would show.                                                             *)
(***************************************************************************)
\* dd + mm/60 in units of 1/60000 degree, dd and mm in thousandths
DegMin(dd, mm) == 60 * dd + mm

\* as _convert_nmea_latitude without its try/except: float()'s ValueError escapes
_convert_nmea_latitude_NoExcept(nmea_lat, direction) ==
    IF nmea_lat = <<>> THEN Returns(None)
    ELSE LET dd == PyFloat(Slice(nmea_lat, 0, 2))
             mm == PyFloat(SliceFrom(nmea_lat, 2))
         IN  IF dd.raised \/ mm.raised THEN ValueError
             ELSE LET decimal_degrees == DegMin(dd.val, mm.val)
                  IN  IF direction = <<"S">> THEN Returns(Some(-decimal_degrees))
                      ELSE Returns(Some(decimal_degrees))

_convert_nmea_latitude(nmea_lat, direction) ==
    IF nmea_lat = <<>> THEN Returns(None)
    ELSE LET dd == PyFloat(Slice(nmea_lat, 0, 2))
             mm == PyFloat(SliceFrom(nmea_lat, 2))
         IN  IF dd.raised \/ mm.raised THEN Returns(None)      \* except ValueError
             ELSE LET decimal_degrees == DegMin(dd.val, mm.val)
                  IN  IF direction = <<"S">> THEN Returns(Some(-decimal_degrees))
                      ELSE Returns(Some(decimal_degrees))

\* as _convert_nmea_longitude with the latitude's two degree digits
_convert_nmea_longitude_TwoDigits(nmea_lon, direction) ==
    IF nmea_lon = <<>> THEN Returns(None)
    ELSE LET ddd == PyFloat(Slice(nmea_lon, 0, 2))
             mm  == PyFloat(SliceFrom(nmea_lon, 2))
         IN  IF ddd.raised \/ mm.raised THEN Returns(None)
             ELSE LET decimal_degrees == DegMin(ddd.val, mm.val)
                  IN  IF direction = <<"W">> THEN Returns(Some(-decimal_degrees))
                      ELSE Returns(Some(decimal_degrees))

_convert_nmea_longitude(nmea_lon, direction) ==
    IF nmea_lon = <<>> THEN Returns(None)
    ELSE LET ddd == PyFloat(Slice(nmea_lon, 0, 3))
             mm  == PyFloat(SliceFrom(nmea_lon, 3))
         IN  IF ddd.raised \/ mm.raised THEN Returns(None)     \* except ValueError
             ELSE LET decimal_degrees == DegMin(ddd.val, mm.val)
                  IN  IF direction = <<"W">> THEN Returns(Some(-decimal_degrees))
                      ELSE Returns(Some(decimal_degrees))

(***************************************************************************)
(* gps.py: _parse_nmea.  parts is nmea_sentence.split(','); Python's       *)
(* parts[i] is parts[i + 1] here.  The result is the tracker after the     *)
(* call, given the tracker cur before it, and whether the call raised.     *)
(***************************************************************************)
T_GPGGA == <<"$", "G", "P", "G", "G", "A">>
T_GPRMC == <<"$", "G", "P", "R", "M", "C">>

Tracker(f, la, lo) == [has_fix |-> f, latitude |-> la, longitude |-> lo]
Invalidated == Tracker(FALSE, None, None)

Done(t) == [raised |-> FALSE, tracker |-> t]
Raised(t) == [raised |-> TRUE, tracker |-> t]

\* as Recognized, asking only for the fields the parser reads
Recognized_SevenFields(parts, type) == parts[1] = type /\ Len(parts) >= 7

\* the test that selects a branch of _parse_nmea
Recognized(parts, type) == parts[1] = type /\ Len(parts) >= 10

\* as ActiveStatus, taking every status but V for a fix
ActiveStatus_NotVoid(status) == status # <<"V">>

\* the status test of the $GPRMC branch
ActiveStatus(status) == status = <<"A">>

\* the three assignments of a branch that found a fix, in order:
\* latitude, longitude, has_fix; a raise leaves what was assigned before it
StoreFix(cur, lat_str, lat_dir, lon_str, lon_dir) ==
    LET la == _convert_nmea_latitude(lat_str, lat_dir)
        lo == _convert_nmea_longitude(lon_str, lon_dir)
    IN  IF la.raised THEN Raised(cur)
        ELSE IF lo.raised THEN Raised(Tracker(cur.has_fix, la.val, cur.longitude))
        ELSE Done(Tracker(TRUE, la.val, lo.val))

_parse_nmea(parts, cur) ==
    IF Recognized(parts, T_GPGGA)
    THEN LET fix_status == PyInt(parts[7]) IN
         IF fix_status.raised THEN Done(Invalidated)      \* except (ValueError, IndexError)
         ELSE IF fix_status.val >= 1
              THEN LET lat_str == parts[3]
                       lat_dir == parts[4]
                       lon_str == parts[5]
                       lon_dir == parts[6]
                   IN  IF lat_str # <<>> /\ lon_str # <<>>
                       THEN LET r == StoreFix(cur, lat_str, lat_dir, lon_str, lon_dir)
                            IN  IF r.raised THEN Done(Invalidated)   \* except
                                ELSE r
                       ELSE Done(Invalidated)
              ELSE Done(Invalidated)
    ELSE IF Recognized(parts, T_GPRMC)
    THEN LET status == parts[3] IN
         IF ActiveStatus(status)
         THEN LET lat_str == parts[4]
                  lat_dir == parts[5]
                  lon_str == parts[6]
                  lon_dir == parts[7]
              IN  IF lat_str # <<>> /\ lon_str # <<>>
                  THEN StoreFix(cur, lat_str, lat_dir, lon_str, lon_dir)  \* no try here
                  ELSE Done(Invalidated)
         ELSE Done(Invalidated)
    ELSE Done(cur)

\* as CoordinatePair testing has_fix only
CoordinatePair_FixOnly(t) ==
    IF t.has_fix THEN <<t.latitude, t.longitude>> ELSE <<None, None>>

\* GPS.get_coordinates on a tracker: the pair it returns
CoordinatePair(t) ==
    IF t.has_fix /\ t.latitude # None /\ t.longitude # None
    THEN <<t.latitude, t.longitude>>
    ELSE <<None, None>>

\* the fix the decision loop gets from the pair (its test is
\* lat is not None and lon is not None): None stands for no fix
Coordinates(t) ==
    LET pair == CoordinatePair(t)
    IN  IF pair[1] # None /\ pair[2] # None
        THEN Some(<<TheVal(pair[1]), TheVal(pair[2])>>)
        ELSE None

get_coordinates == Coordinates(Tracker(has_fix, latitude, longitude))

(***************************************************************************)
(* What uart.readline() can give: nothing within the timeout, bytes that   *)
(* are not UTF-8, or a line of text (given by its comma-separated fields). *)
(***************************************************************************)
ReadNothing == [kind |-> "none"]
ReadNotUtf8 == [kind |-> "not_utf8"]
Text(parts) == [kind |-> "text", parts |-> parts]

E == <<>>
N == <<"N">>
S == <<"S">>
EAST == <<"E">>
WEST == <<"W">>
LAT_4807_038 == <<"4", "8", "0", "7", ".", "0", "3", "8">>
LAT_4000_000 == <<"4", "0", "0", "0", ".", "0", "0", "0">>
LAT_9959_999 == <<"9", "9", "5", "9", ".", "9", "9", "9">>
LAT_48X7_038 == <<"4", "8", "X", "7", ".", "0", "3", "8">>
LAT_4        == <<"4">>
LON_01131_000 == <<"0", "1", "1", "3", "1", ".", "0", "0", "0">>
LON_07500_000 == <<"0", "7", "5", "0", "0", ".", "0", "0", "0">>
LON_19959_999 == <<"1", "9", "9", "5", "9", ".", "9", "9", "9">>
LON_075X0_000 == <<"0", "7", "5", "X", "0", ".", "0", "0", "0">>
UTC == <<"1", "2">>

\* $GPGGA,time,lat,N/S,lon,E/W,quality,sats,hdop,alt,M,geoid,M,,checksum
GGA(la, lad, lo, lod, q) ==
    <<T_GPGGA, UTC, la, lad, lo, lod, q, <<"8">>, E, E, <<"M">>, E, <<"M">>, E, E>>
\* $GPRMC,time,status,lat,N/S,lon,E/W,speed,course,date,magvar,E/W
RMC(st, la, lad, lo, lod) ==
    <<T_GPRMC, UTC, st, la, lad, lo, lod, E, E, <<"2", "3", "0", "3", "9", "4">>, E, E>>
\* the first n fields of a sentence: a line cut short
Cut(parts, n) == SubSeq(parts, 1, n)

LatTexts == {E, LAT_4807_038, LAT_9959_999, LAT_48X7_038, LAT_4}
LonTexts == {E, LON_01131_000, LON_19959_999, LON_075X0_000}
Qualities == {<<"0">>, <<"1">>, <<"2">>, <<"-", "1">>, <<"X">>, E}
Statuses == {<<"A">>, <<"V">>, E}

\* the four coordinate fields lat, N/S, lon, E/W: every combination, and a few
CoordinateFields ==
    {<<la, lad, lo, lod>> : la \in LatTexts, lad \in {N, S},
                            lo \in LonTexts, lod \in {EAST, WEST}}
SomeCoordinateFields ==
    {<<LAT_4807_038, N, LON_01131_000, EAST>>, <<LAT_4000_000, S, LON_07500_000, WEST>>,
     <<E, N, E, EAST>>, <<LAT_48X7_038, N, LON_01131_000, EAST>>}

GGASentences ==
    {GGA(c[1], c[2], c[3], c[4], <<"1">>) : c \in CoordinateFields}
      \cup {GGA(c[1], c[2], c[3], c[4], q) : c \in SomeCoordinateFields, q \in Qualities}
RMCSentences ==
    {RMC(<<"A">>, c[1], c[2], c[3], c[4]) : c \in CoordinateFields}
      \cup {RMC(st, c[1], c[2], c[3], c[4]) : c \in SomeCoordinateFields, st \in Statuses}
\* lines that are no $GPGGA/$GPRMC sentence of 10 fields or more
OtherSentences ==
    {<<E>>,
     <<<<"$", "G", "P", "G", "S", "A">>, <<"A">>, <<"3">>, E, E, E, E, E, E, E, E, E>>,
     Cut(GGA(LAT_4807_038, N, LON_01131_000, EAST, <<"1">>), 9),
     Cut(GGA(E, N, E, EAST, <<"0">>), 9),
     Cut(GGA(LAT_4807_038, N, LON_01131_000, EAST, <<"X">>), 7),
     Cut(RMC(<<"V">>, E, N, E, EAST), 9),
     Cut(RMC(<<"A">>, LAT_4000_000, S, LON_07500_000, WEST), 9),
     <<T_GPGGA>>}

NmeaLines ==
    {ReadNothing, ReadNotUtf8}
      \cup {Text(p) : p \in GGASentences \cup RMCSentences \cup OtherSentences}

\* the few lines the GPS task reads when the whole system runs: a fix at
\* 40 N 75 W, a fix at 48.1173 N 75 W, a void sentence, a sentence whose
\* latitude cannot be decoded, and a sentence of another type
CycleLines ==
    {Text(GGA(LAT_4000_000, N, LON_07500_000, WEST, <<"1">>)),
     Text(RMC(<<"A">>, LAT_4807_038, N, LON_07500_000, WEST)),
     Text(RMC(<<"V">>, E, N, E, EAST)),
     Text(GGA(LAT_48X7_038, N, LON_07500_000, WEST, <<"2">>)),
     Text(<<<<"$", "G", "P", "G", "S", "A">>, <<"A">>, <<"3">>, E, E, E, E, E, E, E, E, E>>)}

(***************************************************************************)
(* _parse_nmea tabulated once over the model's lines and tracker values    *)
(* (it is a pure function of both): ParseTable[p][t] = _parse_nmea(p, t).  *)
(***************************************************************************)
AllParts == {l.parts : l \in {x \in NmeaLines \cup CycleLines : x.kind = "text"}}
AllLatitudes ==
    {None} \cup {LET r == _convert_nmea_latitude(t, d) IN IF r.raised THEN None ELSE r.val :
                    t \in LatTexts \cup {LAT_4000_000}, d \in {N, S}}
AllLongitudes ==
    {None} \cup {LET r == _convert_nmea_longitude(t, d) IN IF r.raised THEN None ELSE r.val :
                    t \in LonTexts \cup {LON_07500_000}, d \in {EAST, WEST}}
AllTrackers == {Tracker(f, la, lo) : f \in BOOLEAN, la \in AllLatitudes, lo \in AllLongitudes}

ParseTable == [p \in AllParts |-> [t \in AllTrackers |-> _parse_nmea(p, t)]]

(***************************************************************************)
(* gps.py: one iteration of GPS.update.  A line that cannot be decoded     *)
(* raises inside the try and is caught; no line within the timeout is      *)
(* skipped; a text line is parsed, and a raise of the parser is caught.    *)
(***************************************************************************)
update(l) ==
    /\ main_pc = "sleep"
    /\ line' = l
    /\ LET cur == Tracker(has_fix, latitude, longitude)
           o   == IF l.kind = "text" THEN ParseTable[l.parts][cur] ELSE Done(cur)
       IN  /\ has_fix' = o.tracker.has_fix
           /\ latitude' = o.tracker.latitude
           /\ longitude' = o.tracker.longitude
           /\ step' = [task |-> "gps", before |-> get_coordinates,
                       parse_raised |-> o.raised]
    /\ UNCHANGED <<touch_vars, env_vars, main_vars, accepted, hist>>

(***************************************************************************)
(* unit_toggle.py                                                          *)
(***************************************************************************)
debounce_ms == 300

\* utime.ticks_diff, for tick values that have not wrapped
ticks_diff(a, b) == a - b

\* as TouchAccepted with >= for >
TouchAccepted_AtWindow(pressed, current_time, last) ==
    pressed /\ ticks_diff(current_time, last) >= debounce_ms

\* the test of monitor_touch_async: the touch is pressed and the debounce
\* window since last_touch_time is over
TouchAccepted(pressed, current_time, last) ==
    pressed /\ ticks_diff(current_time, last) > debounce_ms

\* one iteration of monitor_touch_async
monitor_touch_async ==
    /\ main_pc = "sleep"
    /\ LET current_time == now IN
       IF TouchAccepted(is_pressed, current_time, last_touch_time)
       THEN /\ toggle_status' = TRUE
            /\ last_touch_time' = current_time
            /\ accepted' = accepted + 1
            /\ press_accepts' = press_accepts + 1
       ELSE UNCHANGED <<toggle_status, last_touch_time, accepted, press_accepts>>
    /\ step' = [task |-> "touch"]
    /\ UNCHANGED <<gps_vars, env_vars, main_vars, flips>>

\* get_toggle_status returns the flag
get_toggle_status == toggle_status

\* as StatusAfterGet with the flag cleared by the read, as the docstring of
\* get_toggle_status has it ("then resets")
StatusAfterGet_Cleared(status) == FALSE

\* the flag after get_toggle_status: the method assigns nothing
StatusAfterGet(status) == status

\* as reset_toggle_status leaving the flag as it is
reset_toggle_status_Kept == toggle_status

\* reset_toggle_status: the flag after it
reset_toggle_status == FALSE

(***************************************************************************)
(* The environment: the clock advances, the panel is touched or released.  *)
(***************************************************************************)
TICK_MS == 50
BOOT_SLEEP_MS == 500
MaxTicks == 7

Tick ==
    /\ main_pc = "sleep"
    /\ now + TICK_MS <= BOOT_SLEEP_MS + MaxTicks * TICK_MS
    /\ now' = now + TICK_MS
    /\ step' = [task |-> "env"]
    /\ UNCHANGED <<gps_vars, touch_vars, is_pressed, main_vars, accepted, hist>>

Press ==
    /\ main_pc = "sleep"
    /\ ~is_pressed
    /\ is_pressed' = TRUE
    /\ press_accepts' = 0
    /\ step' = [task |-> "env"]
    /\ UNCHANGED <<gps_vars, touch_vars, now, main_vars, accepted, flips>>

Release ==
    /\ main_pc = "sleep"
    /\ is_pressed
    /\ is_pressed' = FALSE
    /\ press_accepts' = 0
    /\ step' = [task |-> "env"]
    /\ UNCHANGED <<gps_vars, touch_vars, now, main_vars, accepted, flips>>

(***************************************************************************)
(* main.py: distance.  The model keeps every fix that reaches the lookup   *)
(* and every zone on one meridian.  With dlon = 0 the source's             *)
(* a = sin(dlat/2)^2 and c = 2*atan2(sqrt(a), sqrt(1-a)) = |dlat|, so      *)
(* distance = R * |dlat| (radians).  Coordinates are in 1/60000 degree and *)
(* the result is in millimetres: one unit is R*pi/(180*60000) m.           *)
(***************************************************************************)
R == 6371000
MAX_DISTANCE_METERS == 150

\* micrometres of arc per 1/60000 degree, pi = 3.14159
MicrometresPerUnit == ((R \div 1000) * 314159) \div 1080

Abs(x) == IF x < 0 THEN -x ELSE x

haversine_distance(lat1, lon1, lat2, lon2) ==
    CASE lon1 = lon2 ->
        LET dlat == Abs(lat2 - lat1)
        IN  (dlat \div 1000) * MicrometresPerUnit
              + ((dlat % 1000) * MicrometresPerUnit) \div 1000

(***************************************************************************)
(* main.py: the zone table.  A feature is                                  *)
(*   {geometry: {coordinates: [lon, lat]}, properties: {speed_mph: n}}.    *)
(***************************************************************************)
Zone(zone_lon, zone_lat, mph) ==
    [geometry |-> [type |-> "Point", coordinates |-> <<zone_lon, zone_lat>>],
     properties |-> [speed_mph |-> mph]]

LAT_40N == 40 * 60000          \* 40.0 N
LAT_48N == 48 * 60000 + 7038   \* 48.1173 N
LON_75W == -(75 * 60000)       \* 75.0 W

\* the spec's scenario: one zone 0.0005 degree (55.6 m) north of 40 N 75 W
ZonesScenario == <<Zone(LON_75W, LAT_40N + 30, 55)>>
\* around 40 N: 150.1 m (outside), 148.3 m, 18.5 m, 18.5 m again; one at 48.1173 N
ZonesMany ==
    <<Zone(LON_75W, LAT_40N + 81, 70),
      Zone(LON_75W, LAT_40N + 80, 45),
      Zone(LON_75W, LAT_40N + 10, 25),
      Zone(LON_75W, LAT_40N - 10, 60),
      Zone(LON_75W, LAT_48N - 5, 60)>>

\* entries that lack speed_mph, and geometry.coordinates
ZoneNoSpeed(zone_lon, zone_lat) ==
    [geometry |-> [type |-> "Point", coordinates |-> <<zone_lon, zone_lat>>],
     properties |-> [name |-> "unposted"]]
ZoneNoCoordinates(mph) ==
    [geometry |-> [type |-> "Point"], properties |-> [speed_mph |-> mph]]

\* a table with such entries: a sound zone 55.6 m north of 40 N, an entry
\* without speed_mph 9.3 m south of 48.1173 N, an entry without coordinates
ZonesFaulty ==
    <<Zone(LON_75W, LAT_40N + 30, 55),
      ZoneNoSpeed(LON_75W, LAT_48N - 5),
      ZoneNoCoordinates(30)>>

\* the documents json.load() can give: with 'features', and without
Document(features) == [type |-> "FeatureCollection", features |-> features]
NoFeatures == [type |-> "FeatureCollection"]

\* what open() and json.load() of speed_limits.json can give: a document,
\* OSError, json.JSONDecodeError, or an exception that is neither (the
\* ValueError that json.load of MicroPython raises on malformed text)
Parsed(doc) == [result |-> "ok", doc |-> doc]
Loaded(features) == Parsed(Document(features))
ZoneFiles ==
    {Loaded(<<>>), Loaded(ZonesScenario), Loaded(ZonesMany), Loaded(ZonesFaulty),
     Parsed(NoFeatures),
     [result |-> "OSError"], [result |-> "JSONDecodeError"], [result |-> "ValueError"]}

(***************************************************************************)
(* main.py: the display commands                                           *)
(***************************************************************************)
ShowMessage(text) == [cmd |-> "show_message", text |-> text]
ShowSpeedLimit(speed, unit) == [cmd |-> "show_speed_limit", speed |-> speed, unit |-> unit]

(***************************************************************************)
(* main.py: main_loop up to its first cycle.  The 500 ms sleep passes      *)
(* before the other tasks exist; they are created here and first run when  *)
(* the loop first sleeps.  sys.exit() and an exception that no clause      *)
(* catches both end main_loop and with it asyncio.run: no task runs after. *)
(***************************************************************************)
Startup(file) ==
    /\ main_pc = "boot"
    /\ now' = now + BOOT_SLEEP_MS
    /\ CASE file.result = "ok" /\ "features" \in DOMAIN file.doc ->
              /\ speed_limits_data' = Some(file.doc)
              /\ lcd' = ShowMessage("Waiting for GPS...")
              /\ main_pc' = "loop"
         [] file.result = "ok" /\ "features" \notin DOMAIN file.doc ->
              \* speed_limits_data['features'] raises KeyError inside the try;
              \* no except clause names it
              /\ speed_limits_data' = Some(file.doc)
              /\ main_pc' = "load_raised"
              /\ UNCHANGED lcd
         [] file.result = "OSError" ->
              /\ lcd' = ShowMessage("SD Error!")
              /\ main_pc' = "exited"
              /\ UNCHANGED speed_limits_data
         [] file.result = "JSONDecodeError" ->
              /\ lcd' = ShowMessage("JSON Error!")
              /\ main_pc' = "exited"
              /\ UNCHANGED speed_limits_data
         [] file.result = "ValueError" ->
              /\ main_pc' = "load_raised"
              /\ UNCHANGED <<speed_limits_data, lcd>>
    /\ step' = [task |-> "main", consumed |-> 0]
    /\ UNCHANGED <<gps_vars, touch_vars, is_pressed, current_unit_is_mph, toggled,
                   lat, lon, closest_speed_limit, min_distance, accepted, hist>>

(***************************************************************************)
(* main.py: one cycle of the decision loop.  Nothing in the loop catches   *)
(* an exception: a KeyError of the zone lookup ends main_loop after the    *)
(* toggle check and before anything is drawn.                              *)
(***************************************************************************)
\* as ToKph with int() for round()
ToKph_Truncated(mph) == (mph * 160934) \div 100000

\* round(mph * 1.60934); no integer mph below 25000 gives a tie at .5
ToKph(mph) == (mph * 160934 + 50000) \div 100000

\* as Closer without the radius
Closer_AnyDistance(distance, min) == min = None \/ distance < TheVal(min)

\* as Closer with <= for < against the least distance so far
Closer_OrEqual(distance, min) ==
    distance <= MAX_DISTANCE_METERS * 1000 /\ (min = None \/ distance <= TheVal(min))

\* the test of the zone loop
Closer(distance, min) ==
    distance <= MAX_DISTANCE_METERS * 1000 /\ (min = None \/ distance < TheVal(min))

\* feature['geometry']['coordinates'] and feature['properties']['speed_mph']
\* can be read
HasCoordinates(feature) ==
    "geometry" \in DOMAIN feature /\ "coordinates" \in DOMAIN feature.geometry
HasSpeed(feature) ==
    "properties" \in DOMAIN feature /\ "speed_mph" \in DOMAIN feature.properties

RECURSIVE ScanZones(_, _, _, _, _)
\* the for loop over features from index i on, with the locals so far
\* raised: a subscript of the feature raised KeyError, which ends the loop
\* with the locals as they are
ScanZones(features, i, fix, closest, min) ==
    IF i > Len(features) THEN [closest |-> closest, min |-> min, raised |-> FALSE]
    ELSE IF ~HasCoordinates(features[i])
    THEN [closest |-> closest, min |-> min, raised |-> TRUE]
    ELSE LET zone_coords == features[i].geometry.coordinates
             zone_lon    == zone_coords[1]
             zone_lat    == zone_coords[2]
             distance    == haversine_distance(fix[1], fix[2], zone_lat, zone_lon)
         IN  IF Closer(distance, min)
             THEN IF ~HasSpeed(features[i])
                  THEN [closest |-> closest, min |-> Some(distance), raised |-> TRUE]
                  ELSE ScanZones(features, i + 1, fix,
                                 Some(features[i].properties.speed_mph), Some(distance))
             ELSE ScanZones(features, i + 1, fix, closest, min)

\* what the cycle draws for a lookup result
Render(closest, unit_is_mph) ==
    IF closest # None
    THEN IF unit_is_mph THEN ShowSpeedLimit(TheVal(closest), "MPH")
         ELSE ShowSpeedLimit(ToKph(TheVal(closest)), "KPH")
    ELSE ShowMessage("No limit found")

\* as Display with the no-fix case falling into the lookup's message
Display_NoElse(c, features, unit_is_mph) ==
    IF c # None
    THEN Render(ScanZones(features, 1, TheVal(c), None, None).closest, unit_is_mph)
    ELSE ShowMessage("No limit found")

\* what the cycle draws: c is get_coordinates()
Display(c, features, unit_is_mph) ==
    IF c # None
    THEN Render(ScanZones(features, 1, TheVal(c), None, None).closest, unit_is_mph)
    ELSE ShowMessage("Waiting for GPS...")

\* as UnitAfter with the flip lost
UnitAfter_NoFlip(pending, unit_is_mph) == unit_is_mph

\* as UnitAfter with the flip in every cycle
UnitAfter_Always(pending, unit_is_mph) == ~unit_is_mph

\* as UnitAfter with the unit set to KPH for flipped
UnitAfter_SetKph(pending, unit_is_mph) == IF pending THEN FALSE ELSE unit_is_mph

\* the unit after the toggle check
UnitAfter(pending, unit_is_mph) == IF pending THEN ~unit_is_mph ELSE unit_is_mph

MainCycle ==
    /\ main_pc \in {"loop", "sleep"}
    /\ toggled' = get_toggle_status
    /\ current_unit_is_mph' = UnitAfter(get_toggle_status, current_unit_is_mph)
    /\ toggle_status' = IF get_toggle_status THEN reset_toggle_status
                        ELSE StatusAfterGet(toggle_status)
    /\ LET c == get_coordinates IN
       IF c # None
       THEN LET r == ScanZones(TheVal(speed_limits_data).features, 1, TheVal(c), None, None) IN
            /\ lat' = Some(TheVal(c)[1])
            /\ lon' = Some(TheVal(c)[2])
            /\ closest_speed_limit' = r.closest
            /\ min_distance' = r.min
            /\ IF r.raised
               THEN main_pc' = "cycle_raised" /\ UNCHANGED lcd
               ELSE /\ main_pc' = "sleep"
                    /\ lcd' = Display(c, TheVal(speed_limits_data).features,
                                      current_unit_is_mph')
       ELSE /\ lat' = None
            /\ lon' = None
            /\ UNCHANGED <<closest_speed_limit, min_distance>>
            /\ main_pc' = "sleep"
            /\ lcd' = Display(c, TheVal(speed_limits_data).features,
                              current_unit_is_mph')
    /\ accepted' = 0
    /\ flips' = IF get_toggle_status THEN flips + 1 ELSE flips
    /\ step' = [task |-> "main", consumed |-> accepted]
    /\ UNCHANGED <<gps_vars, last_touch_time, env_vars, speed_limits_data, press_accepts>>

(***************************************************************************)
(* The system                                                              *)
(***************************************************************************)
Init ==
    /\ line = ReadNothing
    /\ has_fix = FALSE
    /\ latitude = None
    /\ longitude = None
    /\ toggle_status = FALSE
    /\ last_touch_time = 0
    /\ is_pressed = FALSE
    /\ now = 0
    /\ main_pc = "boot"
    /\ speed_limits_data = None
    /\ current_unit_is_mph = TRUE
    /\ toggled = FALSE
    /\ lat = None
    /\ lon = None
    /\ closest_speed_limit = None
    /\ min_distance = None
    /\ lcd = ShowMessage("Booting...")
    /\ step = [task |-> "main", consumed |-> 0]
    /\ accepted = 0
    /\ press_accepts = 0
    /\ flips = 0

Next ==
    \/ \E file \in ZoneFiles : Startup(file)
    \/ MainCycle
    \/ \E l \in CycleLines : update(l)
    \/ monitor_touch_async
    \/ Tick
    \/ Press
    \/ Release

Spec == Init /\ [][Next]_vars

\* The GPS task over every line of NmeaLines: start-up and the first cycle
\* (which runs before the GPS task does), then lines only.
FirstCycle == main_pc = "loop" /\ MainCycle

NextNmea ==
    \/ Startup(Loaded(ZonesScenario))
    \/ FirstCycle
    \/ \E l \in NmeaLines : update(l)

SpecNmea == Init /\ [][NextNmea]_vars

\* The two methods of UnitToggle called on their own, in any order, beside
\* the touch monitor: toggled holds what the last get_toggle_status returned.
CallGetToggleStatus ==
    /\ main_pc = "sleep"
    /\ toggled' = get_toggle_status
    /\ toggle_status' = StatusAfterGet(toggle_status)
    /\ step' = [task |-> "get"]
    /\ UNCHANGED <<gps_vars, last_touch_time, env_vars, main_pc, speed_limits_data,
                   current_unit_is_mph, lat, lon, closest_speed_limit, min_distance,
                   lcd, accepted, hist>>

CallResetToggleStatus ==
    /\ main_pc = "sleep"
    /\ toggle_status' = reset_toggle_status
    /\ step' = [task |-> "reset"]
    /\ UNCHANGED <<gps_vars, last_touch_time, env_vars, main_vars, accepted, hist>>

NextToggle ==
    \/ Startup(Loaded(ZonesScenario))
    \/ FirstCycle
    \/ monitor_touch_async
    \/ Tick
    \/ Press
    \/ Release
    \/ CallGetToggleStatus
    \/ CallResetToggleStatus

SpecToggle == Init /\ [][NextToggle]_vars

(***************************************************************************)
(* Properties                                                              *)
(***************************************************************************)
Waiting == ShowMessage("Waiting for GPS...")
NoLimit == ShowMessage("No limit found")
AfterCycle == step.task = "main" /\ main_pc = "sleep"
AfterLine == step.task = "gps" /\ line.kind = "text"

\* the tracker holds no fix: get_coordinates gives (None, None)
NoFixHeld == ~has_fix \/ latitude = None \/ longitude = None

\* C1: a cycle that reads no fix shows "Waiting for GPS...", never a speed
\* limit, whatever the zone table and the unit.
C1_NoFixShowsWaiting ==
    (AfterCycle /\ NoFixHeld) => (lcd = Waiting /\ lat = None /\ lon = None)

C1_Witness ==
    /\ AfterCycle /\ NoFixHeld
    /\ line = Text(RMC(<<"V">>, E, N, E, EAST))
    /\ speed_limits_data = Some(Document(ZonesMany))
    /\ ~current_unit_is_mph
    /\ lcd = Waiting

\* the sentences as the claims describe them
IsGGA(parts) == parts[1] = T_GPGGA /\ Len(parts) >= 10
IsRMC(parts) == parts[1] = T_GPRMC /\ Len(parts) >= 10
LatText(parts) == IF parts[1] = T_GPGGA THEN parts[3] ELSE parts[4]
LatDir(parts)  == IF parts[1] = T_GPGGA THEN parts[4] ELSE parts[5]
LonText(parts) == IF parts[1] = T_GPGGA THEN parts[5] ELSE parts[6]
LonDir(parts)  == IF parts[1] = T_GPGGA THEN parts[6] ELSE parts[7]
\* a sentence that reports a fix: quality >= 1, or status A
ReportsFix(parts) ==
    \/ IsGGA(parts) /\ parts[7] \in {<<"1">>, <<"2">>}
    \/ IsRMC(parts) /\ parts[3] = <<"A">>
\* a recognized sentence that carries no fix
CarriesNoFix(parts) ==
    \/ IsGGA(parts) /\ (parts[7] = <<"0">> \/ parts[3] = E \/ parts[5] = E)
    \/ IsRMC(parts) /\ (parts[3] # <<"A">> \/ parts[4] = E \/ parts[6] = E)

\* C2: after a recognized sentence that carries no fix the tracker is
\* invalid whatever it held, and it gets a fix again only from a sentence
\* that reports one with both coordinate fields filled.
C2_NoFixSentenceInvalidates ==
    [][/\ (step'.task = "gps" /\ line'.kind = "text" /\ CarriesNoFix(line'.parts))
            => (has_fix' = FALSE /\ latitude' = None /\ longitude' = None)
       /\ (~has_fix /\ has_fix')
            => /\ line'.kind = "text"
               /\ ReportsFix(line'.parts)
               /\ LatText(line'.parts) # E
               /\ LonText(line'.parts) # E]_vars

C2_Witness ==
    /\ AfterLine
    /\ line = Text(GGA(LAT_4807_038, N, LON_01131_000, EAST, <<"0">>))
    /\ step.before # None
    /\ ~has_fix /\ latitude = None /\ longitude = None

\* C3: a line that is no $GPGGA/$GPRMC sentence of at least 10 fields
\* leaves has_fix, latitude and longitude as they were.
C3_OtherLinesChangeNothing ==
    [][(step'.task = "gps" /\ line'.kind = "text"
          /\ ~IsGGA(line'.parts) /\ ~IsRMC(line'.parts))
        => UNCHANGED <<has_fix, latitude, longitude>>]_vars

C3_Witness ==
    /\ AfterLine
    /\ line = Text(Cut(RMC(<<"V">>, E, N, E, EAST), 9))
    /\ step.before # None
    /\ has_fix /\ latitude # None /\ longitude # None

\* the decimal degrees of the well-formed coordinate texts, worked by hand,
\* in 1/60000 degree: 4807.038 -> 48 + 7.038/60 = 48.1173 -> 2887038
WellFormedLat == {LAT_4807_038, LAT_4000_000, LAT_9959_999}
WellFormedLon == {LON_01131_000, LON_07500_000, LON_19959_999}
ExpectedLat(text, dir) ==
    LET v == CASE text = LAT_4807_038 -> 2887038
               [] text = LAT_4000_000 -> 2400000
               [] text = LAT_9959_999 -> 5999999
    IN  IF dir = S THEN -v ELSE v
ExpectedLon(text, dir) ==
    LET v == CASE text = LON_01131_000 -> 691000
               [] text = LON_07500_000 -> 4500000
               [] text = LON_19959_999 -> 11999999
    IN  IF dir = WEST THEN -v ELSE v

\* C4: after a sentence that reports a fix with well-formed coordinates the
\* tracker has the fix, with the coordinates decoded as degrees + minutes/60
\* and negated for S and W, whatever it held before.
C4_FixSentenceDecoded ==
    (/\ line.kind = "text"
     /\ ReportsFix(line.parts)
     /\ LatText(line.parts) \in WellFormedLat
     /\ LonText(line.parts) \in WellFormedLon)
    => /\ has_fix
       /\ latitude = Some(ExpectedLat(LatText(line.parts), LatDir(line.parts)))
       /\ longitude = Some(ExpectedLon(LonText(line.parts), LonDir(line.parts)))

C4_Witness ==
    /\ AfterLine
    /\ line = Text(RMC(<<"A">>, LAT_4807_038, S, LON_01131_000, WEST))
    /\ step.before = Some(<<2887038, 11999999>>)
    /\ has_fix /\ latitude = Some(-2887038) /\ longitude = Some(-691000)

\* the malformed numeric fields of the model's sentences
BadQuality(parts) == IsGGA(parts) /\ parts[7] \in {<<"X">>, E}
BadLatTexts == {LAT_48X7_038, LAT_4}
BadLonTexts == {LON_075X0_000}
BadCoordinate(parts) ==
    /\ IsGGA(parts) \/ IsRMC(parts)
    /\ LatText(parts) \in BadLatTexts \/ LonText(parts) \in BadLonTexts
Malformed(parts) == BadQuality(parts) \/ BadCoordinate(parts)

\* C5 as claimed: after a recognized sentence with a malformed numeric field
\* has_fix is false, no coordinate is available and nothing was raised.
C5_MalformedClearsHasFix ==
    (AfterLine /\ Malformed(line.parts))
    => (~has_fix /\ NoFixHeld /\ ~step.parse_raised)

\* C5 as amended: after such a sentence get_coordinates gives (None, None)
\* and nothing was raised; has_fix is false after a non-numeric fix-quality,
\* and true, beside a None for each undecodable text, when a sentence that
\* reports a fix has both coordinate fields filled.
C5_MalformedGivesNoCoordinates ==
    (AfterLine /\ Malformed(line.parts))
    => /\ NoFixHeld
       /\ ~step.parse_raised
       /\ BadQuality(line.parts)
            => (~has_fix /\ latitude = None /\ longitude = None)
       /\ (/\ BadCoordinate(line.parts) /\ ReportsFix(line.parts)
           /\ LatText(line.parts) # E /\ LonText(line.parts) # E)
            => /\ has_fix
               /\ (LatText(line.parts) \in BadLatTexts) <=> (latitude = None)
               /\ (LonText(line.parts) \in BadLonTexts) <=> (longitude = None)

C5_Witness ==
    /\ AfterLine
    /\ line = Text(RMC(<<"A">>, LAT_48X7_038, N, LON_01131_000, EAST))
    /\ step.before # None
    /\ has_fix /\ latitude = None /\ longitude = Some(691000)
    /\ ~step.parse_raised

\* the zone table, and the distance from the fix of the last cycle to its
\* zone i, in millimetres
ZoneTable == TheVal(speed_limits_data).features
ZoneDistance(i) ==
    LET c == ZoneTable[i].geometry.coordinates
    IN  haversine_distance(TheVal(lat), TheVal(lon), c[2], c[1])
ZonesWithin ==
    {i \in 1..Len(ZoneTable) : ZoneDistance(i) <= 150 * 1000}

\* C6: a cycle with a fix selects a zone at the least distance of all zones,
\* that distance being at most 150 m; with no zone within 150 m (or no zone
\* at all) it selects none and shows "No limit found".
C6_NearestWithinRadius ==
    (AfterCycle /\ lat # None)
    => IF ZonesWithin = {}
       THEN closest_speed_limit = None /\ lcd = NoLimit
       ELSE \E i \in ZonesWithin :
              /\ \A j \in 1..Len(ZoneTable) :
                    ZoneDistance(i) <= ZoneDistance(j)
              /\ min_distance = Some(ZoneDistance(i))
              /\ closest_speed_limit =
                    Some(ZoneTable[i].properties.speed_mph)
              /\ lcd.cmd = "show_speed_limit"

C6_Witness ==
    /\ AfterCycle
    /\ speed_limits_data = Some(Document(ZonesMany))
    /\ lat = Some(LAT_40N) /\ lon = Some(LON_75W)
    /\ closest_speed_limit = Some(25)
    /\ min_distance = Some(18532)

C6_WitnessNoZone ==
    /\ AfterCycle
    /\ speed_limits_data = Some(Document(ZonesScenario))
    /\ lat = Some(LAT_48N)
    /\ lcd = NoLimit

\* round(mph * 1.60934) worked by hand for the limits of the zone tables
ExpectedKph(mph) ==
    CASE mph = 25 -> 40 [] mph = 45 -> 72 [] mph = 55 -> 89
      [] mph = 60 -> 97 [] mph = 70 -> 113

\* C7: with a zone of limit L selected the cycle shows (L, MPH) in MPH mode
\* and (round(L * 1.60934), KPH) in KPH mode.
C7_UnitAwareDisplay ==
    (AfterCycle /\ lat # None /\ closest_speed_limit # None)
    => lcd = IF current_unit_is_mph
             THEN ShowSpeedLimit(TheVal(closest_speed_limit), "MPH")
             ELSE ShowSpeedLimit(ExpectedKph(TheVal(closest_speed_limit)), "KPH")

C7_Witness ==
    /\ AfterCycle
    /\ speed_limits_data = Some(Document(ZonesScenario))
    /\ lat = Some(LAT_40N) /\ lon = Some(LON_75W)
    /\ ~current_unit_is_mph
    /\ lcd = ShowSpeedLimit(89, "KPH")

\* a step of the decision loop, a step of the touch monitor
CycleStep == main_pc \in {"loop", "sleep"} /\ step'.task = "main"
PollStep == step'.task = "touch"
UnitName(is_mph) == IF is_mph THEN "MPH" ELSE "KPH"

\* C8: a cycle that starts with pending set flips the unit once and clears
\* pending, and what it draws is in the new unit; a cycle that starts with
\* pending clear leaves the unit; pending is set whenever a touch was
\* accepted since the last cycle.
C8_PendingFlipsOnce ==
    [][/\ CycleStep =>
            /\ toggle_status =>
                  (current_unit_is_mph' = ~current_unit_is_mph /\ ~toggle_status')
            /\ ~toggle_status =>
                  (current_unit_is_mph' = current_unit_is_mph /\ ~toggle_status')
            /\ (main_pc' = "sleep" /\ lcd'.cmd = "show_speed_limit")
                  => lcd'.unit = UnitName(current_unit_is_mph')
       /\ accepted' >= 1 => toggle_status']_vars

C8_Witness ==
    /\ AfterCycle
    /\ toggled /\ step.consumed = 1
    /\ ~toggle_status
    /\ ~current_unit_is_mph
    /\ lcd = ShowSpeedLimit(97, "KPH")

\* C9: the touches accepted between two cycles, however many, flip the unit
\* exactly once at the next cycle and leave nothing pending; a cycle with no
\* touch accepted since the last one does not flip it.
C9_TouchesCoalesce ==
    [][CycleStep =>
          /\ accepted >= 1 => current_unit_is_mph' = ~current_unit_is_mph
          /\ accepted = 0 => current_unit_is_mph' = current_unit_is_mph
          /\ ~toggle_status' /\ accepted' = 0]_vars

C9_Witness ==
    /\ AfterCycle
    /\ step.consumed >= 2
    /\ toggled /\ ~toggle_status
    /\ ~current_unit_is_mph

\* C10: a poll sets pending and the last-accepted time exactly when the
\* touch is pressed and more than 300 ms have passed since the last accepted
\* touch, and otherwise changes neither; accepted touches are more than
\* 300 ms apart.
C10_Debounce ==
    [][/\ PollStep =>
            IF is_pressed /\ now - last_touch_time > 300
            THEN toggle_status' /\ last_touch_time' = now /\ accepted' = accepted + 1
            ELSE UNCHANGED <<toggle_status, last_touch_time, accepted>>
       /\ last_touch_time' # last_touch_time
            => (PollStep /\ last_touch_time' - last_touch_time > 300)]_vars

C10_Witness ==
    /\ step.task = "touch"
    /\ is_pressed
    /\ last_touch_time > 0
    /\ now - last_touch_time = 300
    /\ ~toggle_status /\ accepted = 0

\* C11 as claimed: during one uninterrupted press (the panel pressed, not
\* released since) the touch monitor sets pending at most once, however long
\* the press lasts.
C11_OnePressOneToggle ==
    is_pressed => press_accepts <= 1

\* main_loop has ended at start-up, the zone table not loaded
LoadFailed == main_pc \in {"exited", "load_raised"}
ErrorMessages == {ShowMessage("SD Error!"), ShowMessage("JSON Error!")}

\* C12 as claimed: when the zone table cannot be loaded (no file, malformed
\* text, a document without 'features') the display shows an error message,
\* main_loop has halted and no decision cycle runs.
C12_LoadFailureShowsError ==
    LoadFailed => (lcd \in ErrorMessages /\ ~ENABLED MainCycle /\ lat = None)

\* C13 as claimed: once the zone table is loaded every cycle emits one render
\* command and the loop goes on to its sleep and the next cycle, whatever
\* the fix, the pending flag and the entries of the zone table.
C13_LoopNeverEnds ==
    [][CycleStep =>
          /\ main_pc' = "sleep"
          /\ lcd'.cmd \in {"show_message", "show_speed_limit"}
          /\ lcd' \notin ErrorMessages]_vars

\* C14 as claimed: every fix that get_coordinates hands out has its latitude
\* within [-90, 90] and its longitude within [-180, 180] degrees.
C14_CoordinatesInRange ==
    get_coordinates # None
    => LET c == TheVal(get_coordinates)
       IN  /\ -(90 * 60000) <= c[1] /\ c[1] <= 90 * 60000
           /\ -(180 * 60000) <= c[2] /\ c[2] <= 180 * 60000

\* C15: pending goes from set to clear only in a step of the decision loop,
\* and that step read it as set and flipped the unit; so do the touches
\* counted as accepted: none is dropped by another task or without a flip.
C15_ClearedOnlyWithFlip ==
    [][(toggle_status /\ ~toggle_status') \/ (accepted > 0 /\ accepted' = 0)
        => /\ CycleStep
           /\ toggle_status /\ toggled'
           /\ current_unit_is_mph' = ~current_unit_is_mph
           /\ flips' = flips + 1]_vars

C15_Witness ==
    /\ step.task = "main" /\ step.consumed = 1
    /\ toggled /\ ~toggle_status
    /\ flips = 1 /\ ~current_unit_is_mph
    /\ is_pressed /\ press_accepts = 1
    /\ has_fix
    /\ lcd = NoLimit

\* the zones within 150 m at the least distance from the fix of the last
\* cycle, and the first of them in the order of the table
NearestZones ==
    {i \in ZonesWithin : \A j \in ZonesWithin : ZoneDistance(i) <= ZoneDistance(j)}
FirstNearest == CHOOSE i \in NearestZones : \A j \in NearestZones : i <= j

\* C16: when several zones within 150 m are at the same least distance from
\* the fix, the cycle selects and shows the limit of the one that comes
\* first in the zone table.
C16_TieGoesToFirst ==
    (AfterCycle /\ lat # None /\ ZonesWithin # {})
    => LET mph == ZoneTable[FirstNearest].properties.speed_mph
       IN  /\ closest_speed_limit = Some(mph)
           /\ lcd = IF current_unit_is_mph
                    THEN ShowSpeedLimit(mph, "MPH")
                    ELSE ShowSpeedLimit(ExpectedKph(mph), "KPH")

C16_Witness ==
    /\ AfterCycle
    /\ speed_limits_data = Some(Document(ZonesMany))
    /\ lat = Some(LAT_40N) /\ lon = Some(LON_75W)
    /\ NearestZones = {3, 4}
    /\ ZoneDistance(3) = ZoneDistance(4)
    /\ ZoneTable[3].properties.speed_mph # ZoneTable[4].properties.speed_mph
    /\ closest_speed_limit = Some(25)
    /\ lcd = ShowSpeedLimit(40, "KPH")

\* C17: the unit is MPH at start-up and after every even number of consumed
\* toggles, KPH after every odd number; it changes only in a step of the
\* decision loop that read pending as set, never in a GPS step, a touch
\* poll, a step of the environment or a cycle without a pending toggle.
C17_UnitFrame ==
    /\ [](current_unit_is_mph <=> (flips % 2 = 0))
    /\ [][/\ current_unit_is_mph' # current_unit_is_mph
              => (CycleStep /\ toggle_status /\ toggled')
          /\ step'.task \in {"gps", "touch", "env"}
              => UNCHANGED <<current_unit_is_mph, flips>>
          /\ (CycleStep /\ ~toggle_status)
              => UNCHANGED <<current_unit_is_mph, flips>>]_vars

C17_Witness ==
    /\ AfterCycle
    /\ flips = 2 /\ toggled
    /\ current_unit_is_mph
    /\ lcd = ShowSpeedLimit(55, "MPH")

ReturnedPair == CoordinatePair(Tracker(has_fix, latitude, longitude))

\* C19: get_coordinates returns (None, None) or the two stored coordinates,
\* both present; never one present beside one missing, though has_fix may be
\* true with one stored coordinate None.
C19_NeverHalfDecoded ==
    /\ (ReturnedPair[1] = None) <=> (ReturnedPair[2] = None)
    /\ ReturnedPair # <<None, None>>
         => (has_fix /\ ReturnedPair = <<latitude, longitude>>)
    /\ (has_fix /\ latitude # None /\ longitude # None)
         => ReturnedPair = <<latitude, longitude>>

C19_Witness ==
    /\ AfterLine
    /\ line = Text(GGA(LAT_4807_038, N, LON_075X0_000, WEST, <<"1">>))
    /\ has_fix /\ latitude = Some(2887038) /\ longitude = None
    /\ ReturnedPair = <<None, None>>
    /\ step.before # None
====
